---- MODULE Spec2Model ----
(***************************************************************************)
(* Model of the retrieval engine's result cache (LRUCache, cached_query,   *)
(* chapter_5/05_02.ipynb) and of its fusion step (WeightedFusionRetriever, *)
(* chapter 6 pipeline notebook).                                           *)
(***************************************************************************)
EXTENDS Integers, Sequences, FiniteSets, TLC

VARIABLES
    capacity,     \* LRUCache.capacity
    cache,        \* LRUCache.cache: a dict, modelled as a function on the stored keys
    usage_order,  \* LRUCache.usage_order: list of keys, least recently used first
    op,           \* history: the last call made and what it returned
    clock,        \* history: number of successful accesses so far
    lastAccess,   \* history: clock value of each key's last successful get/put (0: none)
    lastPut,      \* history: value of the last put of each key still stored, else None
    since,        \* history (cached_query): keys accessed since a query's last cached call
    pc,           \* concurrent callers: position of each caller inside get/put
    local,        \* concurrent callers: the call's arguments and local variables
    failed,       \* concurrent callers: exceptions raised so far
    args,         \* inputs of the pure functions (cache key, fusion)
    result        \* outputs of the pure functions

vars == <<capacity, cache, usage_order, op, clock, lastAccess, lastPut, since,
          pc, local, failed, args, result>>

(* ------------------------------- bounds -------------------------------- *)
MaxCap == 2      \* capacities 0..MaxCap
MaxKey == 3      \* keys 1..MaxKey
MaxVal == 2      \* values 1..MaxVal
MaxClock == 7    \* successful accesses per run

Keys == 1..MaxKey
Values == 1..MaxVal
None == 0          \* Python None: a value no put stores (Values start at 1)
NoOp == [name |-> "init"]

(* ------------------------------ list helpers ---------------------------- *)
InList(s, x) == \E i \in 1..Len(s) : s[i] = x

IndexOf(s, x) == CHOOSE i \in 1..Len(s) : s[i] = x /\ \A j \in 1..(i-1) : s[j] # x

\* list.remove(x): drops the first occurrence of x (the caller checks x is present)
ListRemove(s, x) ==
    LET i == IndexOf(s, x)
    IN  SubSeq(s, 1, i-1) \o SubSeq(s, i+1, Len(s))

\* del d[k]
DictDel(d, k) == [j \in (DOMAIN d) \ {k} |-> d[j]]

\* mutant of DictSet: an existing entry keeps its old value (dict.setdefault)
DictSet_keep(d, k, v) ==
    [j \in (DOMAIN d) \cup {k} |-> IF j \in DOMAIN d THEN d[j] ELSE v]

\* d[k] = v
DictSet(d, k, v) == [j \in (DOMAIN d) \cup {k} |-> IF j = k THEN v ELSE d[j]]

EmptyDict == [j \in {} |-> None]

(* ------------------------------- LRUCache ------------------------------- *)
\* mutant of LRU_get: a miss still records the key as most recently used
LRU_get_touch(c, u, key) ==
    IF key \in DOMAIN c
    THEN [cache |-> c, usage_order |-> Append(ListRemove(u, key), key),
          ret |-> c[key], err |-> "none"]
    ELSE [cache |-> c, usage_order |-> Append(u, key), ret |-> None, err |-> "none"]

\* mutant of LRU_get: a hit does not update the usage order
LRU_get_norecency(c, u, key) ==
    IF key \in DOMAIN c
    THEN [cache |-> c, usage_order |-> u, ret |-> c[key], err |-> "none"]
    ELSE [cache |-> c, usage_order |-> u, ret |-> None, err |-> "none"]

\* LRUCache.get: the state after the call, the value returned and the exception raised
LRU_get(c, u, key) ==
    IF key \in DOMAIN c
    THEN IF InList(u, key)
         THEN [cache |-> c, usage_order |-> Append(ListRemove(u, key), key),
               ret |-> c[key], err |-> "none"]
         ELSE [cache |-> c, usage_order |-> u, ret |-> None, err |-> "ValueError"]
    ELSE [cache |-> c, usage_order |-> u, ret |-> None, err |-> "none"]

\* mutant of LRU_evict: usage_order.pop() evicts the most recently used key
LRU_evict_mru(c, u) ==
    IF u = <<>>
    THEN [cache |-> c, usage_order |-> u, evicted |-> {}, err |-> "IndexError"]
    ELSE [cache |-> DictDel(c, u[Len(u)]), usage_order |-> SubSeq(u, 1, Len(u) - 1),
          evicted |-> {u[Len(u)]}, err |-> "none"]

\* mutant of LRU_evict: the oldest key leaves usage_order but stays in the cache
LRU_evict_keepkey(c, u) ==
    IF u = <<>>
    THEN [cache |-> c, usage_order |-> u, evicted |-> {}, err |-> "IndexError"]
    ELSE [cache |-> c, usage_order |-> Tail(u), evicted |-> {Head(u)}, err |-> "none"]

\* mutant of LRU_evict: nothing is evicted, and nothing raised, when usage_order
\* is empty
LRU_evict_silent(c, u) ==
    IF u = <<>>
    THEN [cache |-> c, usage_order |-> u, evicted |-> {}, err |-> "none"]
    ELSE IF Head(u) \in DOMAIN c
         THEN [cache |-> DictDel(c, Head(u)), usage_order |-> Tail(u),
               evicted |-> {Head(u)}, err |-> "none"]
         ELSE [cache |-> c, usage_order |-> Tail(u), evicted |-> {}, err |-> "KeyError"]

\* the eviction branch of LRUCache.put: usage_order.pop(0); del cache[lru_key]
LRU_evict(c, u) ==
    IF u = <<>>
    THEN [cache |-> c, usage_order |-> u, evicted |-> {}, err |-> "IndexError"]
    ELSE IF Head(u) \in DOMAIN c
         THEN [cache |-> DictDel(c, Head(u)), usage_order |-> Tail(u),
               evicted |-> {Head(u)}, err |-> "none"]
         ELSE [cache |-> c, usage_order |-> Tail(u), evicted |-> {}, err |-> "KeyError"]

\* mutant of LRU_full: > instead of >=
LRU_full_gt(c, cap) == Cardinality(DOMAIN c) > cap

\* the capacity test of LRUCache.put
LRU_full(c, cap) == Cardinality(DOMAIN c) >= cap

\* mutant of LRU_put: an existing key is handled like a new one (no membership test)
LRU_put_nocheck(c, u, cap, key, value) ==
    LET e == IF LRU_full(c, cap) THEN LRU_evict(c, u)
             ELSE [cache |-> c, usage_order |-> u, evicted |-> {}, err |-> "none"]
    IN  IF e.err # "none"
        THEN e
        ELSE [cache |-> DictSet(e.cache, key, value),
              usage_order |-> Append(e.usage_order, key),
              evicted |-> e.evicted, err |-> "none"]

\* LRUCache.put
LRU_put(c, u, cap, key, value) ==
    IF key \in DOMAIN c
    THEN IF InList(u, key)
         THEN [cache |-> DictSet(c, key, value),
               usage_order |-> Append(ListRemove(u, key), key),
               evicted |-> {}, err |-> "none"]
         ELSE [cache |-> DictSet(c, key, value), usage_order |-> u,
               evicted |-> {}, err |-> "ValueError"]
    ELSE LET e == IF LRU_full(c, cap) THEN LRU_evict(c, u)
                  ELSE [cache |-> c, usage_order |-> u, evicted |-> {}, err |-> "none"]
         IN  IF e.err # "none"
             THEN e
             ELSE [cache |-> DictSet(e.cache, key, value),
                   usage_order |-> Append(e.usage_order, key),
                   evicted |-> e.evicted, err |-> "none"]

\* LRUCache.clear
LRU_clear == [cache |-> EmptyDict, usage_order |-> <<>>]

\* LRUCache.__len__
LRU_len(c) == Cardinality(DOMAIN c)

(* ----------------------- single-threaded LRUCache ----------------------- *)
IdleOthers ==
    /\ since = <<>>
    /\ pc = <<>>
    /\ local = <<>>
    /\ failed = {}
    /\ args = <<>>
    /\ result = <<>>

\* LRUCache.__init__
Init ==
    /\ capacity \in 0..MaxCap
    /\ cache = EmptyDict
    /\ usage_order = <<>>
    /\ op = NoOp
    /\ clock = 0
    /\ lastAccess = [k \in Keys |-> 0]
    /\ lastPut = [k \in Keys |-> None]
    /\ IdleOthers

Get(key) ==
    \E r \in {LRU_get(cache, usage_order, key)} :
    LET hit == key \in DOMAIN cache /\ r.err = "none"
    IN  /\ clock < MaxClock
        /\ cache' = r.cache
        /\ usage_order' = r.usage_order
        /\ op' = [name |-> "get", key |-> key, present |-> key \in DOMAIN cache,
                  ret |-> r.ret, err |-> r.err]
        /\ clock' = IF hit THEN clock + 1 ELSE clock
        /\ lastAccess' = IF hit THEN [lastAccess EXCEPT ![key] = clock + 1] ELSE lastAccess
        /\ UNCHANGED <<capacity, lastPut, since, pc, local, failed, args, result>>

Put(key, value) ==
    \E r \in {LRU_put(cache, usage_order, capacity, key, value)} :
    LET ok == r.err = "none"
    IN  /\ clock < MaxClock
        /\ cache' = r.cache
        /\ usage_order' = r.usage_order
        /\ op' = [name |-> "put", key |-> key, value |-> value,
                  present |-> key \in DOMAIN cache, evicted |-> r.evicted, err |-> r.err,
                  after_get |-> IF op.name = "get" /\ op.ret # None THEN op.key ELSE None]
        /\ clock' = IF ok THEN clock + 1 ELSE clock
        /\ lastAccess' = IF ok
                         THEN [k \in Keys |-> IF k = key THEN clock + 1
                                              ELSE IF k \in r.evicted THEN 0
                                              ELSE lastAccess[k]]
                         ELSE lastAccess
        /\ lastPut' = IF ok
                      THEN [k \in Keys |-> IF k = key THEN value
                                           ELSE IF k \in r.evicted THEN None
                                           ELSE lastPut[k]]
                      ELSE lastPut
        /\ UNCHANGED <<capacity, since, pc, local, failed, args, result>>

Clear ==
    /\ cache' = LRU_clear.cache
    /\ usage_order' = LRU_clear.usage_order
    /\ op' = [name |-> "clear"]
    /\ lastAccess' = [k \in Keys |-> 0]
    /\ lastPut' = [k \in Keys |-> None]
    /\ UNCHANGED <<capacity, clock, since, pc, local, failed, args, result>>

Next ==
    \/ \E key \in Keys : Get(key)
    \/ \E key \in Keys, value \in Values : Put(key, value)
    \/ Clear

Spec == Init /\ [][Next]_vars

(* --------------------- claims on the LRUCache (Spec) -------------------- *)
Before(u, a, b) == InList(u, a) /\ InList(u, b) /\ IndexOf(u, a) < IndexOf(u, b)

\* C1: with capacity N >= 1, a put of a key that is not stored while N entries are
\* stored evicts exactly one entry, the one whose last successful get/put is the
\* oldest; a key that a get has just hit, other keys being stored, is not the one.
C1_EvictsLeastRecentlyUsed ==
    [][ ( /\ op'.name = "put"
          /\ capacity >= 1
          /\ op'.key \notin DOMAIN cache
          /\ LRU_len(cache) = capacity )
        => \E e \in DOMAIN cache :
             /\ op'.evicted = {e}
             /\ DOMAIN cache' = ((DOMAIN cache) \ {e}) \cup {op'.key}
             /\ \A j \in (DOMAIN cache) \ {e} : lastAccess[e] < lastAccess[j]
             /\ (op.name = "get" /\ op.ret # None /\ capacity >= 2) => e # op.key
      ]_vars

\* a full cache of two or more keys: a get hit the least recently used key and the
\* next put evicted another key
C1_Witness ==
    /\ op.name = "put"
    /\ capacity >= 2
    /\ LRU_len(cache) = capacity
    /\ op.evicted # {}
    /\ op.after_get \in DOMAIN cache
    /\ usage_order[Len(usage_order) - 1] = op.after_get

\* C2: the number of stored entries never exceeds the capacity.
C2_SizeWithinCapacity == LRU_len(cache) <= capacity

C2_Witness ==
    /\ op.name = "put"
    /\ ~op.present
    /\ op.evicted # {}
    /\ LRU_len(cache) = capacity
    /\ Len(usage_order) = capacity

\* C3: put of a stored key replaces its value, makes it most recently used,
\* evicts nothing, and leaves the size, the other values and the relative order
\* of the other keys unchanged.
C3_PutExistingKey ==
    [][ (op'.name = "put" /\ op'.key \in DOMAIN cache)
        => LET k == op'.key
               others == (DOMAIN cache) \ {k}
           IN  /\ op'.err = "none"
               /\ op'.evicted = {}
               /\ DOMAIN cache' = DOMAIN cache
               /\ cache'[k] = op'.value
               /\ \A j \in others : cache'[j] = cache[j]
               /\ Len(usage_order') = Len(usage_order)
               /\ usage_order'[Len(usage_order')] = k
               /\ \A a, b \in others :
                    Before(usage_order, a, b) <=> Before(usage_order', a, b)
      ]_vars

\* a full cache of two or more keys in which the least recently used key was put again
C3_Witness ==
    /\ op.name = "put"
    /\ op.present
    /\ capacity >= 2
    /\ LRU_len(cache) = capacity
    /\ cache[op.key] = op.value
    /\ lastAccess[op.key] = clock

\* C4: get(k) returns the value of the last put(k, .) when k was not evicted or
\* cleared since, and None otherwise.
C4_GetReturnsLastPut ==
    op.name = "get" => (op.err = "none" /\ op.ret = lastPut[op.key])

\* a get that hit while another key holds a different value
C4_Witness ==
    /\ op.name = "get"
    /\ op.ret # None
    /\ \E j \in DOMAIN cache : j # op.key /\ cache[j] # op.ret

(* ------------- LRUCache of any capacity (SpecAnyCap) -------------------- *)
MaxNeg == 1      \* capacities down to -MaxNeg

\* LRUCache.__init__ with any integer for the capacity
InitAnyCap ==
    /\ capacity \in (0 - MaxNeg)..MaxCap
    /\ cache = EmptyDict
    /\ usage_order = <<>>
    /\ op = NoOp
    /\ clock = 0
    /\ lastAccess = [k \in Keys |-> 0]
    /\ lastPut = [k \in Keys |-> None]
    /\ IdleOthers

SpecAnyCap == InitAnyCap /\ [][Next]_vars

\* C26: usage_order lists exactly the keys of the cache dictionary, each once,
\* after any sequence of get, put and clear calls.
C26_UsageOrderIsKeys ==
    /\ {usage_order[i] : i \in 1..Len(usage_order)} = DOMAIN cache
    /\ Len(usage_order) = Cardinality(DOMAIN cache)

\* a put has just evicted a key from a full cache of at least two entries, after
\* a get had moved a key to the end of usage_order
C26_Witness ==
    /\ op.name = "put"
    /\ op.evicted # {}
    /\ op.after_get # None
    /\ capacity >= 2
    /\ Len(usage_order) = capacity

\* C27: a cache constructed with capacity 0 or a negative capacity never holds
\* an entry: every put fails with the error of popping from the empty
\* usage_order and leaves the cache empty.
C27_NoRoomPutFails ==
    capacity <= 0 =>
        /\ cache = EmptyDict
        /\ usage_order = <<>>
        /\ op.name = "put" => op.err = "IndexError"

\* a put was made on a cache of negative capacity, and one on a cache of
\* capacity 0 is covered by the same formula
C27_Witness ==
    /\ capacity < 0
    /\ op.name = "put"
    /\ op.err = "IndexError"
    /\ cache = EmptyDict

(* ----------------------------- cached_query ----------------------------- *)
MaxN == 11       \* largest n_results asked for

DigitChars == <<"0", "1", "2", "3", "4", "5", "6", "7", "8", "9">>

\* str(n) for n >= 0, as the f-string formats n_results
RECURSIVE IntStr(_)
IntStr(n) ==
    IF n < 10 THEN <<DigitChars[n + 1]>>
    ELSE Append(IntStr(n \div 10), DigitChars[(n % 10) + 1])

\* mutant of CacheKey: no separator between the text and the count
CacheKey_nosep(query_text, n_results) == query_text \o IntStr(n_results)

\* cache_key = f"{query_text}:{n_results}"
CacheKey(query_text, n_results) == query_text \o <<":">> \o IntStr(n_results)

\* the outcome of collection.query when the embedding provider / collection fails
BackendError == 0

\* mutant of IsHit: the lookup result is ignored
IsHit_never(cached_result) == FALSE

\* "if cached_result is not None"
IsHit(cached_result) == cached_result # None

\* cached_query(query_text, n_results, use_cache) on the cache (c, u, cap), when
\* collection.query would return `backend` (or raise, when backend = BackendError):
\* the cache after the call, (result, hit flag), the number of backend queries made
\* and the exception that left the call
cached_query(c, u, cap, query_text, n_results, use_cache, backend) ==
    LET key == CacheKey(query_text, n_results)
        g == IF use_cache THEN LRU_get(c, u, key)
             ELSE [cache |-> c, usage_order |-> u, ret |-> None, err |-> "none"]
    IN  IF g.err # "none"
        THEN [cache |-> g.cache, usage_order |-> g.usage_order, ret |-> None,
              hit |-> FALSE, queried |-> 0, err |-> g.err]
        ELSE IF use_cache /\ IsHit(g.ret)
        THEN [cache |-> g.cache, usage_order |-> g.usage_order, ret |-> g.ret,
              hit |-> TRUE, queried |-> 0, err |-> "none"]
        ELSE IF backend = BackendError
        THEN [cache |-> g.cache, usage_order |-> g.usage_order, ret |-> None,
              hit |-> FALSE, queried |-> 1, err |-> "QueryError"]
        ELSE IF ~use_cache
        THEN [cache |-> g.cache, usage_order |-> g.usage_order, ret |-> backend,
              hit |-> FALSE, queried |-> 1, err |-> "none"]
        ELSE LET p == LRU_put(g.cache, g.usage_order, cap, key, backend)
             IN  [cache |-> p.cache, usage_order |-> p.usage_order,
                  ret |-> IF p.err = "none" THEN backend ELSE None,
                  hit |-> FALSE, queried |-> 1, err |-> p.err]

\* the queries made: texts that contain the separator and digits, counts of one
\* and of two digits
QueryTexts == {<<"a">>, <<"a", ":", "1">>}
NResults == {1, MaxN}
Queries == QueryTexts \X NResults

\* history of one watched query: what its last cached call returned and which
\* other keys cached calls looked up / inserted after it
NoCall(q) == [query |-> q, valid |-> FALSE, ret |-> None, inserted |-> {}, accessed |-> {}]

\* query_cache = LRUCache(capacity=...), nothing queried yet
InitQuery ==
    /\ capacity \in 0..MaxCap
    /\ cache = EmptyDict
    /\ usage_order = <<>>
    /\ op = NoOp
    /\ clock = 0
    /\ lastAccess = <<>>
    /\ lastPut = <<>>
    /\ since \in {NoCall(q) : q \in Queries}
    /\ pc = <<>>
    /\ local = <<>>
    /\ failed = {}
    /\ args = <<>>
    /\ result = <<>>

\* what a call remembers of the watched query's history
Prev(h) == [valid |-> h.valid, ret |-> h.ret,
            inserted |-> Cardinality(h.inserted), accessed |-> Cardinality(h.accessed)]

\* one call of cached_query
CachedQuery(query_text, n_results, use_cache, backend) ==
    \E r \in {cached_query(cache, usage_order, capacity, query_text, n_results,
                           use_cache, backend)} :
    LET key == CacheKey(query_text, n_results)
        returned == r.err = "none"
        watched == since.query = <<query_text, n_results>>
        later == [since EXCEPT !.accessed = @ \cup {key},
                               !.inserted = IF r.hit THEN @ ELSE @ \cup {key}]
    IN  /\ r.queried = 0 => backend = BackendError  \* no query made: no outcome to draw
        /\ cache' = r.cache
        /\ usage_order' = r.usage_order
        /\ op' = IF use_cache
                 THEN [name |-> "cached_query", key |-> key, use_cache |-> TRUE,
                       ret |-> r.ret, hit |-> r.hit, queried |-> r.queried,
                       backend |-> IF r.queried > 0 THEN backend ELSE None,
                       err |-> r.err,
                       prev |-> Prev(IF watched THEN since ELSE NoCall(since.query))]
                 ELSE [name |-> "cached_query", use_cache |-> FALSE,
                       queried |-> r.queried, err |-> r.err]
        /\ since' = IF use_cache /\ returned
                    THEN IF watched
                         THEN [since EXCEPT !.valid = TRUE, !.ret = r.ret,
                                            !.inserted = {}, !.accessed = {}]
                         ELSE IF ~since.valid
                         THEN since
                         ELSE IF Cardinality(later.inserted) >= capacity
                         THEN NoCall(since.query)  \* too many insertions: forget the call
                         ELSE later
                    ELSE since
        /\ UNCHANGED <<capacity, clock, lastAccess, lastPut, pc, local, failed,
                       args, result>>

\* query_cache.clear() between two runs of queries
ClearQueryCache ==
    /\ cache' = LRU_clear.cache
    /\ usage_order' = LRU_clear.usage_order
    /\ op' = [name |-> "clear"]
    /\ since' = NoCall(since.query)
    /\ UNCHANGED <<capacity, clock, lastAccess, lastPut, pc, local, failed,
                   args, result>>

NextQuery ==
    \/ \E q \in Queries, use_cache \in BOOLEAN, backend \in Values \cup {BackendError} :
          CachedQuery(q[1], q[2], use_cache, backend)
    \/ ClearQueryCache

SpecQuery == InitQuery /\ [][NextQuery]_vars

(* ------------------- claims on cached_query (SpecQuery) ----------------- *)
IsCachedCall == op.name = "cached_query" /\ op.use_cache /\ op.err = "none"

\* C7 as stated: a repeated query returns the same result as a cache hit when
\* fewer than `capacity` distinct other keys were inserted since its last call.
C7_AsStated ==
    (IsCachedCall /\ op.prev.valid /\ op.prev.inserted < capacity)
        => (op.hit /\ op.ret = op.prev.ret)

\* C7 amended: a repeated query returns the same result as a cache hit when fewer
\* than `capacity` distinct other keys were looked up (hit or inserted) by cached
\* calls since its last call and the cache was not cleared in between.
C7_RepeatedQueryHits ==
    (IsCachedCall /\ op.prev.valid /\ op.prev.accessed < capacity)
        => (op.hit /\ op.ret = op.prev.ret)

\* a repeated query hit although another key was inserted in between and the
\* backend would now answer differently
C7_Witness ==
    /\ IsCachedCall
    /\ op.prev.valid
    /\ op.prev.inserted > 0
    /\ op.prev.accessed < capacity
    /\ op.hit
    /\ op.ret = op.prev.ret
\* C8: a backend failure during a call that missed the cache leaves the cache's
\* entries and usage order exactly as they were before the call.
C8_BackendFailureKeepsCache ==
    [][ (op'.name = "cached_query" /\ op'.err = "QueryError")
        => (cache' = cache /\ usage_order' = usage_order)
      ]_vars

\* a cached call failed in the backend while other queries' entries were stored
C8_Witness ==
    /\ op.name = "cached_query"
    /\ op.use_cache
    /\ op.err = "QueryError"
    /\ op.key \notin DOMAIN cache
    /\ LRU_len(cache) >= 2

\* C9: with caching enabled a call looks its key up first; on a hit the backend is
\* not queried and the cached value is returned; on a miss the backend is queried
\* exactly once and, when the call returns, its result is stored under the call's
\* key as most recently used.
C9_LookupQueryStore ==
    [][ (op'.name = "cached_query" /\ op'.use_cache)
        => LET key == op'.key
           IN  /\ key \in DOMAIN cache =>
                    /\ op'.err = "none"
                    /\ op'.hit
                    /\ op'.queried = 0
                    /\ op'.ret = cache[key]
                    /\ cache' = cache
               /\ key \notin DOMAIN cache =>
                    /\ ~op'.hit
                    /\ op'.queried = 1
                    /\ op'.err = "none" =>
                         /\ op'.ret = op'.backend
                         /\ op'.ret # None
                         /\ key \in DOMAIN cache'
                         /\ cache'[key] = op'.ret
                         /\ usage_order'[Len(usage_order')] = key
      ]_vars

\* a miss whose result was stored in a full cache of two or more entries
C9_Witness ==
    /\ IsCachedCall
    /\ ~op.hit
    /\ op.queried = 1
    /\ capacity >= 2
    /\ LRU_len(cache) = capacity
    /\ cache[op.key] = op.backend
(* ------------------- the cache key as a function (SpecKey) -------------- *)
MaxTextLen == 2  \* longest query text

\* characters of query texts: a letter, the key's separator and a digit
KeyAlphabet == {"a", ":", "1"}

Texts == UNION {[1..n -> KeyAlphabet] : n \in 0..MaxTextLen}

\* two calls of cached_query, each with its query text and n_results
InitKey ==
    /\ args \in (Texts \X (0..MaxN)) \X (Texts \X (0..MaxN))
    /\ result = <<>>
    /\ capacity = 0
    /\ cache = EmptyDict
    /\ usage_order = <<>>
    /\ op = NoOp
    /\ clock = 0
    /\ lastAccess = <<>>
    /\ lastPut = <<>>
    /\ since = <<>>
    /\ pc = <<>>
    /\ local = <<>>
    /\ failed = {}

\* both calls build their cache key
BuildKeys ==
    /\ result = <<>>
    /\ result' = <<CacheKey(args[1][1], args[1][2]), CacheKey(args[2][1], args[2][2])>>
    /\ UNCHANGED <<capacity, cache, usage_order, op, clock, lastAccess, lastPut,
                   since, pc, local, failed, args>>

NextKey == BuildKeys

SpecKey == InitKey /\ [][NextKey]_vars

\* C6: two calls that differ in query text or in n_results build different keys.
C6_KeyInjective ==
    Len(result) = 2 => (result[1] = result[2] => args[1] = args[2])

\* two different calls whose text and count concatenate to the same characters:
\* only the separator keeps their keys apart
C6_Witness ==
    /\ Len(result) = 2
    /\ args[1] # args[2]
    /\ args[1][1] \o IntStr(args[1][2]) = args[2][1] \o IntStr(args[2][2])
    /\ result[1] # result[2]
(* ------------- concurrent callers of one LRUCache (SpecConc) ------------ *)
NumCallers == 2  \* queries in flight at the same time
MaxCalls == 3    \* calls started per run

Callers == 1..NumCallers

NoLocals == [key |-> None, value |-> None, lru_key |-> None]

\* a cache of capacity >= 1 shared by the callers, nobody inside a call
InitConc ==
    /\ capacity \in 1..MaxCap
    /\ cache = EmptyDict
    /\ usage_order = <<>>
    /\ op = NoOp
    /\ clock = 0
    /\ lastAccess = <<>>
    /\ lastPut = <<>>
    /\ since = <<>>
    /\ pc = [t \in Callers |-> "idle"]
    /\ local = [t \in Callers |-> NoLocals]
    /\ failed = {}
    /\ args = <<>>
    /\ result = <<>>

ConcFrame == UNCHANGED <<capacity, op, lastAccess, lastPut, since, args, result>>

\* the statement at pc[t] raised: the exception leaves the call
Raise(t, exc) ==
    /\ failed' = failed \cup {exc}
    /\ pc' = [pc EXCEPT ![t] = "idle"]

Goto(t, label) ==
    /\ pc' = [pc EXCEPT ![t] = label]
    /\ failed' = failed

\* a caller enters query_cache.get(key)
CallGet(t, key) ==
    /\ pc[t] = "idle"
    /\ clock < MaxCalls
    /\ clock' = clock + 1
    /\ local' = [local EXCEPT ![t] = [NoLocals EXCEPT !.key = key]]
    /\ Goto(t, "get_test")
    /\ UNCHANGED <<cache, usage_order>>
    /\ ConcFrame

\* a caller enters query_cache.put(key, value)
CallPut(t, key, value) ==
    /\ pc[t] = "idle"
    /\ clock < MaxCalls
    /\ clock' = clock + 1
    /\ local' = [local EXCEPT ![t] = [NoLocals EXCEPT !.key = key, !.value = value]]
    /\ Goto(t, "put_test")
    /\ UNCHANGED <<cache, usage_order>>
    /\ ConcFrame

\* get: if key in self.cache  (else: return None)
GetTest(t) ==
    /\ pc[t] = "get_test"
    /\ Goto(t, IF local[t].key \in DOMAIN cache THEN "get_remove" ELSE "idle")
    /\ UNCHANGED <<cache, usage_order, clock, local>>
    /\ ConcFrame

\* get: self.usage_order.remove(key)
GetRemove(t) ==
    /\ pc[t] = "get_remove"
    /\ IF InList(usage_order, local[t].key)
       THEN usage_order' = ListRemove(usage_order, local[t].key) /\ Goto(t, "get_append")
       ELSE usage_order' = usage_order /\ Raise(t, "ValueError")
    /\ UNCHANGED <<cache, clock, local>>
    /\ ConcFrame

\* get: self.usage_order.append(key)
GetAppend(t) ==
    /\ pc[t] = "get_append"
    /\ usage_order' = Append(usage_order, local[t].key)
    /\ Goto(t, "get_return")
    /\ UNCHANGED <<cache, clock, local>>
    /\ ConcFrame

\* get: return self.cache[key]
GetReturn(t) ==
    /\ pc[t] = "get_return"
    /\ IF local[t].key \in DOMAIN cache THEN Goto(t, "idle") ELSE Raise(t, "KeyError")
    /\ UNCHANGED <<cache, usage_order, clock, local>>
    /\ ConcFrame

\* put: if key in self.cache
PutTest(t) ==
    /\ pc[t] = "put_test"
    /\ Goto(t, IF local[t].key \in DOMAIN cache THEN "put_set" ELSE "put_len")
    /\ UNCHANGED <<cache, usage_order, clock, local>>
    /\ ConcFrame

\* put, existing key: self.cache[key] = value
PutSet(t) ==
    /\ pc[t] = "put_set"
    /\ cache' = DictSet(cache, local[t].key, local[t].value)
    /\ Goto(t, "put_remove")
    /\ UNCHANGED <<usage_order, clock, local>>
    /\ ConcFrame

\* put, existing key: self.usage_order.remove(key)
PutRemove(t) ==
    /\ pc[t] = "put_remove"
    /\ IF InList(usage_order, local[t].key)
       THEN usage_order' = ListRemove(usage_order, local[t].key) /\ Goto(t, "put_append")
       ELSE usage_order' = usage_order /\ Raise(t, "ValueError")
    /\ UNCHANGED <<cache, clock, local>>
    /\ ConcFrame

\* put, existing key: self.usage_order.append(key)
PutAppend(t) ==
    /\ pc[t] = "put_append"
    /\ usage_order' = Append(usage_order, local[t].key)
    /\ Goto(t, "idle")
    /\ UNCHANGED <<cache, clock, local>>
    /\ ConcFrame

\* put, new key: if len(self.cache) >= self.capacity
PutLen(t) ==
    /\ pc[t] = "put_len"
    /\ Goto(t, IF LRU_full(cache, capacity) THEN "put_pop" ELSE "put_insert")
    /\ UNCHANGED <<cache, usage_order, clock, local>>
    /\ ConcFrame

\* put, new key: lru_key = self.usage_order.pop(0)
PutPop(t) ==
    /\ pc[t] = "put_pop"
    /\ IF usage_order # <<>>
       THEN /\ local' = [local EXCEPT ![t].lru_key = Head(usage_order)]
            /\ usage_order' = Tail(usage_order)
            /\ Goto(t, "put_del")
       ELSE /\ UNCHANGED <<local, usage_order>>
            /\ Raise(t, "IndexError")
    /\ UNCHANGED <<cache, clock>>
    /\ ConcFrame

\* put, new key: del self.cache[lru_key]
PutDel(t) ==
    /\ pc[t] = "put_del"
    /\ IF local[t].lru_key \in DOMAIN cache
       THEN cache' = DictDel(cache, local[t].lru_key) /\ Goto(t, "put_insert")
       ELSE cache' = cache /\ Raise(t, "KeyError")
    /\ UNCHANGED <<usage_order, clock, local>>
    /\ ConcFrame

\* put, new key: self.cache[key] = value
PutInsert(t) ==
    /\ pc[t] = "put_insert"
    /\ cache' = DictSet(cache, local[t].key, local[t].value)
    /\ Goto(t, "put_order")
    /\ UNCHANGED <<usage_order, clock, local>>
    /\ ConcFrame

\* put, new key: self.usage_order.append(key)
PutOrder(t) ==
    /\ pc[t] = "put_order"
    /\ usage_order' = Append(usage_order, local[t].key)
    /\ Goto(t, "idle")
    /\ UNCHANGED <<cache, clock, local>>
    /\ ConcFrame

NextConc ==
    \E t \in Callers :
        \/ \E key \in Keys : CallGet(t, key)
        \/ \E key \in Keys, value \in Values : CallPut(t, key, value)
        \/ GetTest(t) \/ GetRemove(t) \/ GetAppend(t) \/ GetReturn(t)
        \/ PutTest(t) \/ PutSet(t) \/ PutRemove(t) \/ PutAppend(t)
        \/ PutLen(t) \/ PutPop(t) \/ PutDel(t) \/ PutInsert(t) \/ PutOrder(t)

SpecConc == InitConc /\ [][NextConc]_vars

Quiescent == \A t \in Callers : pc[t] = "idle"

\* C5: with concurrent callers no call fails because of another call's step, the
\* size never exceeds the capacity and, between calls, the usage order lists
\* exactly the stored keys, each once.
C5_ConcurrentCallsSafe ==
    /\ failed = {}
    /\ LRU_len(cache) <= capacity
    /\ Quiescent =>
         /\ {usage_order[i] : i \in 1..Len(usage_order)} = DOMAIN cache
         /\ Len(usage_order) = LRU_len(cache)
(* ------------- WeightedFusionRetriever._retrieve (SpecFuse) ------------- *)
\* Scores and weights are floats in the code. The model keeps a float as an
\* integer number of units whose significand has Precision bits: a product or a
\* sum that needs more bits is rounded to the nearest such number, ties to the
\* even significand, as the code's arithmetic does with 53 bits.
MaxDoc == 2      \* node ids 1..MaxDoc
MaxResults == 2  \* most nodes one retriever returns (similarity_top_k)
MaxScore == 1    \* raw scores -1..MaxScore
MaxWeight == 2   \* configured weights 1..MaxWeight

Precision == 3   \* significand bits of a float

DefaultWeight == 1

RECURSIVE Pow2(_)
Pow2(n) == IF n = 0 THEN 1 ELSE 2 * Pow2(n - 1)

\* every integer below it is a float
Exact == Pow2(Precision)

\* the spacing of the floats around n >= 0
RECURSIVE Ulp(_)
Ulp(n) == IF n < Exact THEN 1 ELSE 2 * Ulp(n \div 2)

\* mutant of Round: fixed-point numbers, every value cut to a multiple of 4 units
Round_fixed(x) == IF x >= 0 THEN (x \div 4) * 4 ELSE 0 - (((0 - x) \div 4) * 4)

\* n >= 0 rounded to the nearest float, ties to the even significand
RoundNat(n) ==
    LET u == Ulp(n)
        q == n \div u
        r == n % u
    IN  IF 2 * r < u THEN q * u
        ELSE IF 2 * r > u THEN (q + 1) * u
        ELSE IF q % 2 = 0 THEN q * u ELSE (q + 1) * u

\* the float result of an exact value
Round(x) ==
    IF x < Exact /\ 0 - x < Exact THEN x
    ELSE IF x >= 0 THEN RoundNat(x) ELSE 0 - RoundNat(0 - x)

\* a * b and a + b on floats
FMul(a, b) == Round(a * b)
FAdd(a, b) == Round(a + b)

RetrieverNames == {"bm25", "vector"}

\* the retrievers dict, by insertion order: one retriever, or both in either order
RetrieverOrders ==
    {<<"bm25">>, <<"vector">>, <<"bm25", "vector">>, <<"vector", "bm25">>}

Docs == 1..MaxDoc
Scores == (-1)..MaxScore
Weights == 1..MaxWeight

\* what retriever.retrieve returns: a ranked list (best score first) of at most
\* MaxResults nodes, each node once
RankedLists ==
    UNION { { s \in [1..n -> [id : Docs, score : Scores]] :
                /\ \A i, j \in 1..n : i # j => s[i].id # s[j].id
                /\ \A i \in 1..(n-1) : s[i].score >= s[i+1].score }
            : n \in 0..MaxResults }

\* weight = self.weights.get(name, 1.0)
WeightOf(weights, name) ==
    IF name \in DOMAIN weights THEN weights[name] ELSE DefaultWeight

NoResults == [ids |-> <<>>, scores |-> EmptyDict]

\* mutant of AddNode: the node's entry is created anew for every source
AddNode_reset(all, name, node, weight) ==
    [ids |-> IF node.id \in DOMAIN all.scores THEN all.ids ELSE Append(all.ids, node.id),
     scores |-> DictSet(all.scores, node.id,
                        DictSet(EmptyDict, name, FMul(node.score, weight)))]

\* mutant of AddNode: the node id is listed again for every source returning it
AddNode_relist(all, name, node, weight) ==
    [ids |-> Append(all.ids, node.id),
     scores |-> DictSet(all.scores, node.id,
                        DictSet(IF node.id \in DOMAIN all.scores
                                THEN all.scores[node.id] ELSE EmptyDict,
                                name, FMul(node.score, weight)))]

\* the body of the inner loop: all_results (a dict, kept as its keys in insertion
\* order and its "scores" entries) after one node of retriever `name`
AddNode(all, name, node, weight) ==
    LET seen == node.id \in DOMAIN all.scores
    IN  [ids |-> IF seen THEN all.ids ELSE Append(all.ids, node.id),
         scores |-> DictSet(all.scores, node.id,
                            DictSet(IF seen THEN all.scores[node.id] ELSE EmptyDict,
                                    name, FMul(node.score, weight)))]

\* for node in results
RECURSIVE AddNodes(_, _, _, _)
AddNodes(all, name, nodes, weight) ==
    IF nodes = <<>> THEN all
    ELSE AddNodes(AddNode(all, name, Head(nodes), weight), name, Tail(nodes), weight)

\* for name, retriever in self.retrievers.items()
RECURSIVE Collect(_, _, _, _)
Collect(all, retrievers, results, weights) ==
    IF retrievers = <<>> THEN all
    ELSE Collect(AddNodes(all, Head(retrievers), results[Head(retrievers)],
                          WeightOf(weights, Head(retrievers))),
                 Tail(retrievers), results, weights)

\* sum(data["scores"].values())
RECURSIVE SumValues(_)
SumValues(d) ==
    IF DOMAIN d = {} THEN 0
    ELSE LET k == CHOOSE k \in DOMAIN d : TRUE
         IN  FAdd(d[k], SumValues(DictDel(d, k)))

\* mutant of FinalResults: a node's score is the number of sources returning it
FinalResults_count(all) ==
    [i \in 1..Len(all.ids) |->
        [id |-> all.ids[i], score |-> Cardinality(DOMAIN all.scores[all.ids[i]])]]

\* final_results: one NodeWithScore per entry of all_results, in insertion order
FinalResults(all) ==
    [i \in 1..Len(all.ids) |->
        [id |-> all.ids[i], score |-> SumValues(all.scores[all.ids[i]])]]

\* x placed into a list sorted by score descending, after the entries that do not
\* score less (equal scores keep their order)
RECURSIVE InsertDesc(_, _)
InsertDesc(sorted, x) ==
    IF sorted = <<>> THEN <<x>>
    ELSE IF Head(sorted).score >= x.score
         THEN <<Head(sorted)>> \o InsertDesc(Tail(sorted), x)
         ELSE <<x>> \o sorted

\* sorted(final_results, key=lambda x: x.score, reverse=True): a stable sort
RECURSIVE SortedDesc(_)
SortedDesc(s) ==
    IF s = <<>> THEN <<>>
    ELSE InsertDesc(SortedDesc(SubSeq(s, 1, Len(s) - 1)), s[Len(s)])

\* WeightedFusionRetriever._retrieve
Fusion_retrieve(retrievers, results, weights) ==
    SortedDesc(FinalResults(Collect(NoResults, retrievers, results, weights)))

\* a WeightedFusionRetriever, the ranked lists its retrievers will return for the
\* query, and no output yet
InitFuse ==
    /\ \E order \in RetrieverOrders :
       \E res \in [{order[i] : i \in 1..Len(order)} -> RankedLists] :
       \E wnames \in SUBSET RetrieverNames :
       \E w \in [wnames -> Weights] :
          args = [retrievers |-> order, results |-> res, weights |-> w]
    /\ result = <<>>
    /\ pc = "retrieve"
    /\ capacity = 0
    /\ cache = EmptyDict
    /\ usage_order = <<>>
    /\ op = NoOp
    /\ clock = 0
    /\ lastAccess = <<>>
    /\ lastPut = <<>>
    /\ since = <<>>
    /\ local = <<>>
    /\ failed = {}

Retrieve ==
    /\ pc = "retrieve"
    /\ result' = Fusion_retrieve(args.retrievers, args.results, args.weights)
    /\ pc' = "done"
    /\ UNCHANGED <<capacity, cache, usage_order, op, clock, lastAccess, lastPut,
                   since, local, failed, args>>

NextFuse == Retrieve

SpecFuse == InitFuse /\ [][NextFuse]_vars

(* ------------------------ claims on fusion (SpecFuse) ------------------- *)
\* the sources whose result list contains document d
SourcesOf(d) ==
    {name \in DOMAIN args.results :
        \E i \in 1..Len(args.results[name]) : args.results[name][i].id = d}

\* the raw score of d in a source that returned it
RawScore(name, d) ==
    LET i == CHOOSE i \in 1..Len(args.results[name]) : args.results[name][i].id = d
    IN  args.results[name][i].score

\* weight * raw score of d in the source, 0 when the source did not return d
Contribution(name, d) ==
    IF name \in SourcesOf(d)
    THEN (IF name \in DOMAIN args.weights THEN args.weights[name] ELSE 1)
         * RawScore(name, d)
    ELSE 0

\* C10: every output entry's fused score is the sum, over the sources that
\* returned the document, of the source's weight (1 when not configured) times
\* the document's raw score there; other sources contribute 0.
C10_FusedScoreIsWeightedSum ==
    pc = "done" =>
        \A i \in 1..Len(result) :
            /\ SourcesOf(result[i].id) # {}
            /\ result[i].score =
                 Contribution("bm25", result[i].id) + Contribution("vector", result[i].id)

\* the output holds a document both sources returned, one of them without a
\* configured weight, and a document only one source returned
C10_Witness ==
    /\ pc = "done"
    /\ Len(args.retrievers) = 2
    /\ Cardinality(DOMAIN args.weights) = 1
    /\ \E i, j \in 1..Len(result) :
         /\ Cardinality(SourcesOf(result[i].id)) = 2
         /\ Cardinality(SourcesOf(result[j].id)) = 1
         /\ result[i].score # 0
         /\ \E name \in DOMAIN args.weights : args.weights[name] > 1

\* C11: the fusion output is sorted by fused score descending, and entries with
\* equal fused scores are ordered by document id ascending.
C11_SortedScoreThenId ==
    pc = "done" =>
        \A i, j \in 1..Len(result) :
            i < j => \/ result[i].score > result[j].score
                     \/ /\ result[i].score = result[j].score
                        /\ result[i].id < result[j].id

\* C13: the fusion output has exactly one entry per distinct document id that
\* appears in any source's list: none duplicated, none lost, none invented.
C13_OneEntryPerDocument ==
    pc = "done" =>
        /\ {result[i].id : i \in 1..Len(result)} = {d \in Docs : SourcesOf(d) # {}}
        /\ \A i, j \in 1..Len(result) : i # j => result[i].id # result[j].id

\* two sources were fused, one document came from both of them and another one
\* from a single source
C13_Witness ==
    /\ pc = "done"
    /\ Len(args.retrievers) = 2
    /\ Len(result) = 2
    /\ \E d, e \in Docs : /\ Cardinality(SourcesOf(d)) = 2
                          /\ Cardinality(SourcesOf(e)) = 1

\* C22: the fused result (documents, fused scores and order) is the same
\* whether the BM25 stage or the vector stage is run first.
C22_StageOrderIrrelevant ==
    (pc = "done" /\ Len(args.retrievers) = 2) =>
        result = Fusion_retrieve(<<args.retrievers[2], args.retrievers[1]>>,
                                 args.results, args.weights)

\* C23: fusion of a single source with weight 1 is the identity: the output is
\* that source's ranking, with its documents, scores and order.
C23_SingleSourceIdentity ==
    (/\ pc = "done"
     /\ Len(args.retrievers) = 1
     /\ WeightOf(args.weights, args.retrievers[1]) = 1)
    => result = args.results[args.retrievers[1]]

\* a single source with the weight 1 configured was fused, and it had ranked
\* two documents of equal, negative score, the larger id first
C23_Witness ==
    /\ pc = "done"
    /\ Len(args.retrievers) = 1
    /\ args.retrievers[1] \in DOMAIN args.weights
    /\ args.weights[args.retrievers[1]] = 1
    /\ Len(result) = 2
    /\ result[1].score = result[2].score
    /\ result[1].score < 0
    /\ result[1].id > result[2].id

(* --------------- fusion under scaled weights (SpecScale) ---------------- *)
MaxScaleScore == 5  \* raw scores 1..MaxScaleScore
MaxFactor == 3      \* weights multiplied by 2..MaxFactor

ScaleScores == 1..MaxScaleScore
Factors == 2..MaxFactor

\* the relative order of two documents in the fused list depends on the scores
\* and list positions of these two alone, so the sources rank two documents
ScaleDocs == {1, 2}

\* what a retriever returns: a ranked list of some of the two documents
ScaleLists ==
    UNION { { s \in [1..n -> [id : ScaleDocs, score : ScaleScores]] :
                /\ \A i, j \in 1..n : i # j => s[i].id # s[j].id
                /\ \A i \in 1..(n-1) : s[i].score >= s[i+1].score }
            : n \in 0..2 }

\* every configured weight multiplied by c
ScaledWeights(weights, c) == [n \in DOMAIN weights |-> FMul(weights[n], c)]

\* a WeightedFusionRetriever with both weights configured, the ranked lists its
\* retrievers return for the query, and the factor by which a second
\* WeightedFusionRetriever over the same retrievers has its weights multiplied
InitScale ==
    /\ \E order \in {<<"bm25", "vector">>, <<"vector", "bm25">>} :
       \E res \in [RetrieverNames -> ScaleLists] :
       \E w \in [RetrieverNames -> Weights] :
       \E c \in Factors :
          args = [retrievers |-> order, results |-> res, weights |-> w, factor |-> c]
    /\ result = <<>>
    /\ pc = "retrieve"
    /\ capacity = 0
    /\ cache = EmptyDict
    /\ usage_order = <<>>
    /\ op = NoOp
    /\ clock = 0
    /\ lastAccess = <<>>
    /\ lastPut = <<>>
    /\ since = <<>>
    /\ local = <<>>
    /\ failed = {}

\* both retrievers' _retrieve for the query
RetrieveBoth ==
    /\ pc = "retrieve"
    /\ result' = [plain |-> Fusion_retrieve(args.retrievers, args.results,
                                            args.weights),
                  scaled |-> Fusion_retrieve(args.retrievers, args.results,
                                             ScaledWeights(args.weights, args.factor))]
    /\ pc' = "done"
    /\ UNCHANGED <<capacity, cache, usage_order, op, clock, lastAccess, lastPut,
                   since, local, failed, args>>

NextScale == RetrieveBoth

SpecScale == InitScale /\ [][NextScale]_vars

(* -------------------- claims on scaling (SpecScale) --------------------- *)
\* the scaled weights gave the same documents in the same order, each with its
\* fused score multiplied by the factor
SameOrderScaledScores ==
    /\ Len(result.scaled) = Len(result.plain)
    /\ \A i \in 1..Len(result.plain) :
          /\ result.scaled[i].id = result.plain[i].id
          /\ result.scaled[i].score = args.factor * result.plain[i].score

\* C24 as stated: multiplying every weight by the same positive constant leaves
\* the order of the fused list unchanged, ties included, and multiplies every
\* fused score by that constant.
C24_AsStated == pc = "done" => SameOrderScaledScores

IsPowerOfTwo(c) == \E k \in 0..c : c = Pow2(k)

\* C24: multiplying every weight by the same power of two (doubling, for
\* instance) leaves the order of the fused list unchanged, ties included, and
\* multiplies every fused score by that constant.
C24_PowerOfTwoScaling ==
    (pc = "done" /\ IsPowerOfTwo(args.factor)) => SameOrderScaledScores

\* the weights were doubled; the fused list holds two documents of equal fused
\* score, the one with the larger id first, one of them returned by both
\* sources with a sum that had to be rounded
C24_Witness ==
    /\ pc = "done"
    /\ args.factor = 2
    /\ Len(result.plain) = 2
    /\ result.plain[1].score = result.plain[2].score
    /\ result.plain[1].id > result.plain[2].id
    /\ \E d \in ScaleDocs :
          \E i, j \in 1..2 :
             /\ i <= Len(args.results.bm25) /\ args.results.bm25[i].id = d
             /\ j <= Len(args.results.vector) /\ args.results.vector[j].id = d
             /\ LET exact == args.weights.bm25 * args.results.bm25[i].score
                              + args.weights.vector * args.results.vector[j].score
                IN  Round(exact) # exact

(* ---------------- RerankedRetriever._retrieve (SpecRerank) --------------- *)
MaxTopK == 2     \* top_k up to MaxTopK

Min(a, b) == IF a <= b THEN a ELSE b
Max(a, b) == IF a >= b THEN a ELSE b

\* the constructor's fetch_k: negative, zero, within and beyond the list length
FetchKs == (-1)..(MaxResults + 1)

\* the constructor's top_k: 0 and positive
TopKs == 0..MaxTopK

\* s[:k]: the first k items, and for a negative k all but the last -k items
PySlice(s, k) ==
    IF k >= 0 THEN SubSeq(s, 1, Min(k, Len(s)))
    ELSE SubSeq(s, 1, Max(Len(s) + k, 0))

\* self.reranker.predict raising instead of returning scores
PredictRaises == <<>>

\* what self.reranker.predict does for the query: it raises, or gives every
\* node's text a score
Predicts == [Docs -> Scores] \cup {PredictRaises}

IdsOf(nodes) == [i \in 1..Len(nodes) |-> nodes[i].id]

\* reranked_nodes: each base node with the score predict gave its pair
Reranked(base_nodes, predict) ==
    [i \in 1..Len(base_nodes) |->
        [id |-> base_nodes[i].id, score |-> predict[base_nodes[i].id]]]

\* reranked_nodes.sort(key=lambda x: x.score, reverse=True): stable
SortDesc(nodes) == SortedDesc(nodes)

\* reranked_nodes[:self.top_k] if self.top_k else reranked_nodes
TopOf(nodes, top_k) == IF top_k # 0 THEN PySlice(nodes, top_k) ELSE nodes

\* RerankedRetriever._retrieve on what the base retriever returned: the returned
\* list, the node ids whose pairs were given to predict, and whether predict's
\* exception left the call
Rerank_retrieve(base, fetch_k, top_k, predict) ==
    LET base_nodes == PySlice(base, fetch_k)
    IN  IF base_nodes = <<>>
        THEN [out |-> <<>>, pairs |-> <<>>, raised |-> FALSE]
        ELSE IF predict = PredictRaises
        THEN [out |-> <<>>, pairs |-> IdsOf(base_nodes), raised |-> TRUE]
        ELSE [out |-> TopOf(SortDesc(Reranked(base_nodes, predict)), top_k),
              pairs |-> IdsOf(base_nodes), raised |-> FALSE]

\* a RerankedRetriever, what its base retriever and its model will do for the
\* query, and no output yet
InitRerank ==
    /\ \E base \in RankedLists, fetch_k \in FetchKs, top_k \in TopKs,
          predict \in Predicts :
          args = [base |-> base, fetch_k |-> fetch_k, top_k |-> top_k,
                  predict |-> predict]
    /\ result = <<>>
    /\ pc = "rerank"
    /\ capacity = 0
    /\ cache = EmptyDict
    /\ usage_order = <<>>
    /\ op = NoOp
    /\ clock = 0
    /\ lastAccess = <<>>
    /\ lastPut = <<>>
    /\ since = <<>>
    /\ local = <<>>
    /\ failed = {}

Rerank ==
    /\ pc = "rerank"
    /\ result' = Rerank_retrieve(args.base, args.fetch_k, args.top_k, args.predict)
    /\ pc' = "done"
    /\ UNCHANGED <<capacity, cache, usage_order, op, clock, lastAccess, lastPut,
                   since, local, failed, args>>

NextRerank == Rerank

SpecRerank == InitRerank /\ [][NextRerank]_vars

(* ---------------------- claims on reranking (SpecRerank) ----------------- *)
\* the first k candidates of the ranked input, all of them if there are fewer
FirstK(s, k) == SubSeq(s, 1, Min(k, Len(s)))

\* C14: the reranker scores exactly the first fetch_k candidates of the ranked
\* input (all of them if there are fewer), and no candidate at a position beyond
\* fetch_k appears in the output.
C14_ScoresFirstFetchK ==
    pc = "done" =>
        LET first == IdsOf(FirstK(args.base, args.fetch_k))
        IN  /\ result.pairs = first
            /\ \A i \in 1..Len(result.out) :
                  \E j \in 1..Len(first) : first[j] = result.out[i].id

\* C15: with fetch_k <= 0 or an empty input, reranking returns the empty list
\* and the pairwise model is not invoked.
C15_NothingToRerank ==
    (pc = "done" /\ (args.fetch_k <= 0 \/ args.base = <<>>)) =>
        /\ result.out = <<>>
        /\ result.pairs = <<>>
        /\ ~result.raised

\* C16: for every fetch_k and top_k, top_k = 0 included, the reranker returns at
\* most min(fetch_k, top_k) results and every returned document is one of the
\* input candidates.
C16_AtMostMinFetchTop ==
    (pc = "done" /\ ~result.raised) =>
        /\ Len(result.out) <= Max(0, Min(args.fetch_k, args.top_k))
        /\ \A i \in 1..Len(result.out) :
              \E j \in 1..Len(args.base) : args.base[j].id = result.out[i].id

\* C17: the reranker's output is ordered by the model's score descending with
\* ties broken by document id ascending, whatever the incoming scores and order;
\* every entry carries the model's score for its own document.
C17_OrderedByModelScore ==
    (pc = "done" /\ ~result.raised) =>
        /\ \A i \in 1..Len(result.out) :
              result.out[i].score = args.predict[result.out[i].id]
        /\ \A i, j \in 1..Len(result.out) :
              i < j => \/ result.out[i].score > result.out[j].score
                       \/ /\ result.out[i].score = result.out[j].score
                          /\ result.out[i].id < result.out[j].id

(* --------------------- RetrievalPipeline (SpecPipe) ---------------------- *)
\* self.config, as __init__ stores it
Configs ==
    [use_bm25 : BOOLEAN, use_vector : BOOLEAN, use_hybrid : BOOLEAN,
     use_reranking : BOOLEAN, vector_weight : Weights, bm25_weight : Weights,
     top_k : 1..MaxTopK, rerank_top_k : FetchKs]

\* self.pipeline = None
NoPipeline == [kind |-> "None"]

\* retrievers[name]: a retriever built with similarity_top_k = top_k
StagePipe(name, top_k) == [kind |-> "stage", name |-> name, top_k |-> top_k]

\* WeightedFusionRetriever(retrievers=retrievers, weights=weights); the stages
\* are kept by name in the dict's insertion order
FusionPipe(retrievers, weights) ==
    [kind |-> "fusion", retrievers |-> retrievers, weights |-> weights]

\* RerankedRetriever(base_retriever=..., fetch_k=..., top_k=...)
RerankPipe(base, fetch_k, top_k) ==
    [kind |-> "rerank", base |-> base, fetch_k |-> fetch_k, top_k |-> top_k]

\* the keys of the retrievers dict after "Set up retrievers", in insertion order
EnabledRetrievers(config) ==
    (IF config.use_bm25 THEN <<"bm25">> ELSE <<>>)
    \o (IF config.use_vector THEN <<"vector">> ELSE <<>>)

\* mutant of UsesFusion: the hybrid flag alone selects fusion
UsesFusion_flag(config, retrievers) == config.use_hybrid

\* self.config["use_hybrid"] and len(retrievers) > 1
UsesFusion(config, retrievers) == config.use_hybrid /\ Len(retrievers) > 1

\* "Select base retriever", for a non-empty retrievers dict
BaseRetriever(config, retrievers) ==
    IF UsesFusion(config, retrievers)
    THEN FusionPipe(retrievers,
                    [vector |-> config.vector_weight, bm25 |-> config.bm25_weight])
    ELSE StagePipe(Head(retrievers), config.top_k)

\* mutant of Pipeline_build: with no retriever enabled, a fusion over no
\* retrievers becomes the base retriever
Pipeline_build_empty(config, pipeline) ==
    LET retrievers == EnabledRetrievers(config)
        base == IF retrievers = <<>>
                THEN FusionPipe(<<>>, [vector |-> config.vector_weight,
                                       bm25 |-> config.bm25_weight])
                ELSE BaseRetriever(config, retrievers)
    IN  [pipeline |-> IF config.use_reranking
                      THEN RerankPipe(base, config.rerank_top_k, config.top_k)
                      ELSE base,
         raised |-> "none"]

\* RetrievalPipeline.build: the new self.pipeline, or the exception that leaves
\* build (next() on the iterator of an empty dict) before self.pipeline is set
Pipeline_build(config, pipeline) ==
    LET retrievers == EnabledRetrievers(config)
    IN  IF retrievers = <<>>
        THEN [pipeline |-> pipeline, raised |-> "StopIteration"]
        ELSE [pipeline |->
                 IF config.use_reranking
                 THEN RerankPipe(BaseRetriever(config, retrievers),
                                 config.rerank_top_k, config.top_k)
                 ELSE BaseRetriever(config, retrievers),
              raised |-> "none"]

\* ranked lists with positive scores
PositiveLists == {s \in RankedLists : \A i \in 1..Len(s) : s[i].score >= 1}

\* what a stage built with similarity_top_k = k does for the query: it raises, or
\* returns a ranked list of at most k nodes
StageOutcomes(k) ==
    {[raises |-> FALSE, nodes |-> s] : s \in {t \in PositiveLists : Len(t) <= k}}
    \cup {[raises |-> TRUE, nodes |-> <<>>]}

\* the pairwise model within the pipeline: it raises, prefers small ids, prefers
\* large ids, or scores every text alike
PipePredicts ==
    {PredictRaises, [d \in Docs |-> 0 - d], [d \in Docs |-> d], [d \in Docs |-> 0]}

\* the stages a pipeline object calls, in call order
RECURSIVE StagesOf(_)
StagesOf(p) ==
    IF p.kind = "stage" THEN <<p.name>>
    ELSE IF p.kind = "fusion" THEN p.retrievers
    ELSE IF p.kind = "rerank" THEN StagesOf(p.base)
    ELSE <<>>

\* the outcome of a call: the list returned, the exception that left it, the
\* stages called, whether WeightedFusionRetriever._retrieve ran, the ranking the
\* reranker received and the node ids it gave the model
Outcome(out, raised, called, fused, pre, pairs) ==
    [out |-> out, raised |-> raised, called |-> called, fused |-> fused,
     pre |-> pre, pairs |-> pairs]

\* a stage's retriever.retrieve(query)
Stage_retrieve(p, stages) ==
    IF stages[p.name].raises
    THEN Outcome(<<>>, "StageError", <<p.name>>, FALSE, <<>>, <<>>)
    ELSE Outcome(stages[p.name].nodes, "none", <<p.name>>, FALSE,
                 stages[p.name].nodes, <<>>)

\* the retrievers called by the loop of WeightedFusionRetriever._retrieve: all of
\* them, or those up to the first one that raises
RECURSIVE CalledUntilRaise(_, _)
CalledUntilRaise(retrievers, stages) ==
    IF retrievers = <<>> THEN <<>>
    ELSE IF stages[Head(retrievers)].raises THEN <<Head(retrievers)>>
    ELSE <<Head(retrievers)>> \o CalledUntilRaise(Tail(retrievers), stages)

\* WeightedFusionRetriever._retrieve with retrievers that may raise: an exception
\* of retriever.retrieve leaves _retrieve
Fusion_call(p, stages) ==
    LET called == CalledUntilRaise(p.retrievers, stages)
    IN  IF called # <<>> /\ stages[called[Len(called)]].raises
        THEN Outcome(<<>>, "StageError", called, TRUE, <<>>, <<>>)
        ELSE LET fusedList == Fusion_retrieve(p.retrievers,
                                  [n \in DOMAIN stages |-> stages[n].nodes],
                                  p.weights)
             IN  Outcome(fusedList, "none", called, TRUE, fusedList, <<>>)

\* self.base_retriever.retrieve(query_bundle)
Base_call(p, stages) ==
    IF p.kind = "fusion" THEN Fusion_call(p, stages) ELSE Stage_retrieve(p, stages)

\* RerankedRetriever._retrieve within the pipeline
Rerank_call(p, stages, predict) ==
    LET b == Base_call(p.base, stages)
    IN  IF b.raised # "none" THEN b
        ELSE LET r == Rerank_retrieve(b.out, p.fetch_k, p.top_k, predict)
             IN  Outcome(r.out, IF r.raised THEN "PredictError" ELSE "none",
                         b.called, b.fused, b.out, r.pairs)

\* mutant of Pipeline_retrieve: an unbuilt pipeline returns no results instead
\* of raising
Pipeline_retrieve_silent(pipeline, stages, predict) ==
    IF pipeline = NoPipeline
    THEN Outcome(<<>>, "none", <<>>, FALSE, <<>>, <<>>)
    ELSE IF pipeline.kind = "rerank" THEN Rerank_call(pipeline, stages, predict)
    ELSE Base_call(pipeline, stages)

\* RetrievalPipeline.retrieve
Pipeline_retrieve(pipeline, stages, predict) ==
    IF pipeline = NoPipeline
    THEN Outcome(<<>>, "ValueError", <<>>, FALSE, <<>>, <<>>)
    ELSE IF pipeline.kind = "rerank" THEN Rerank_call(pipeline, stages, predict)
    ELSE Base_call(pipeline, stages)

\* RetrievalPipeline(...): the configuration is stored, nothing is built
InitPipe ==
    /\ args \in Configs
    /\ local = NoPipeline
    /\ op = NoOp
    /\ result = <<>>
    /\ pc = "idle"
    /\ capacity = 0
    /\ cache = EmptyDict
    /\ usage_order = <<>>
    /\ clock = 0
    /\ lastAccess = <<>>
    /\ lastPut = <<>>
    /\ since = [tried |-> FALSE, built |-> FALSE]
    /\ failed = {}

\* pipeline.build(nodes), up to its return or exception
PipelineBuild ==
    /\ pc = "idle"
    /\ \E b \in {Pipeline_build(args, local)} :
          /\ local' = b.pipeline
          /\ op' = [name |-> "build", raised |-> b.raised]
          /\ since' = [tried |-> TRUE, built |-> since.built \/ b.raised = "none"]
    /\ pc' = "returned"
    /\ UNCHANGED <<capacity, cache, usage_order, clock, lastAccess, lastPut,
                   failed, args, result>>

\* pipeline.retrieve(query), up to its return or exception, for whatever the
\* stages and the pairwise model do with the query
PipelineRetrieve ==
    /\ pc = "idle"
    /\ \E stages \in [{StagesOf(local)[i] : i \in 1..Len(StagesOf(local))}
                        -> StageOutcomes(args.top_k)] :
       \E predict \in IF local.kind = "rerank" THEN PipePredicts
                                                ELSE {PredictRaises} :
       \E r \in {Pipeline_retrieve(local, stages, predict)} :
          /\ op' = [name |-> "retrieve", stages |-> stages, predict |-> predict,
                    run |-> r]
          /\ result' = r.out
    /\ pc' = "returned"
    /\ UNCHANGED <<capacity, cache, usage_order, clock, lastAccess, lastPut,
                   since, local, failed, args>>

\* the caller has taken the call's outcome; the pipeline object stays as it is
PipelineReturn ==
    /\ pc = "returned"
    /\ pc' = "idle"
    /\ op' = NoOp
    /\ result' = <<>>
    /\ UNCHANGED <<capacity, cache, usage_order, clock, lastAccess, lastPut,
                   since, local, failed, args>>

NextPipe == PipelineBuild \/ PipelineRetrieve \/ PipelineReturn

SpecPipe == InitPipe /\ [][NextPipe]_vars

(* ------------------- claims on the pipeline (SpecPipe) ------------------- *)
\* retrieve has just returned or raised on a built pipeline
Retrieved == pc = "returned" /\ op.name = "retrieve" /\ local # NoPipeline

\* C12: with both retrievers enabled, each returning up to top_k candidates, the
\* hybrid pipeline without reranking returns at most top_k results.
C12_HybridAtMostTopK ==
    (/\ Retrieved
     /\ args.use_bm25 /\ args.use_vector /\ args.use_hybrid
     /\ ~args.use_reranking
     /\ op.run.raised = "none")
    => Len(result) <= args.top_k

\* the stages of the pipeline that fail for the query
Down == {n \in DOMAIN op.stages : op.stages[n].raises}

\* C18: when one of the two enabled stages fails, retrieve drops it and returns
\* the ranking of the remaining stage; retrieve fails only when every enabled
\* stage failed.
C18_FailedStageDropped ==
    (/\ Retrieved
     /\ args.use_bm25 /\ args.use_vector /\ args.use_hybrid)
    => /\ Cardinality(Down) = 1 =>
            /\ op.run.raised # "StageError"
            /\ \A n \in DOMAIN op.stages \ Down :
                  {op.run.pre[i].id : i \in 1..Len(op.run.pre)}
                    = {op.stages[n].nodes[i].id : i \in 1..Len(op.stages[n].nodes)}
       /\ op.run.raised = "StageError" => Down = DOMAIN op.stages

\* C19: when the pairwise model fails during reranking, retrieve does not fail
\* and returns the ranking it had before reranking, unchanged.
C19_RerankFailureFallsBack ==
    (/\ Retrieved
     /\ args.use_reranking
     /\ op.run.pairs # <<>>
     /\ op.predict = PredictRaises)
    => /\ op.run.raised = "none"
       /\ result = op.run.pre

\* C20: with exactly one retrieval stage enabled and reranking disabled, fusion
\* is never executed and retrieve returns what that stage returned, unchanged:
\* the same documents, scores and order, at most top_k of them, whatever the
\* fusion flag and the weights are.
C20_SingleStagePassThrough ==
    (/\ Retrieved
     /\ args.use_bm25 # args.use_vector
     /\ ~args.use_reranking)
    => LET name == IF args.use_bm25 THEN "bm25" ELSE "vector"
       IN  /\ ~op.run.fused
           /\ op.run.called = <<name>>
           /\ ~op.stages[name].raises =>
                 /\ op.run.raised = "none"
                 /\ result = op.stages[name].nodes
                 /\ Len(result) <= args.top_k

\* the only enabled stage returned two nodes and retrieve has returned, with the
\* fusion flag set and a weight other than 1 configured for that stage
C20_Witness ==
    /\ Retrieved
    /\ args.use_bm25 /\ ~args.use_vector /\ args.use_hybrid
    /\ ~args.use_reranking
    /\ args.bm25_weight > 1
    /\ op.run.raised = "none"
    /\ Len(result) = 2

\* C21: whenever both retrieval stages are enabled, fusion is applied even if
\* the fusion flag is false: every enabled stage is consulted and its
\* candidates are part of the ranking.
C21_FusionWheneverTwoStages ==
    (/\ Retrieved
     /\ args.use_bm25 /\ args.use_vector
     /\ op.run.raised = "none")
    => /\ op.run.fused
       /\ DOMAIN op.stages = {"bm25", "vector"}
       /\ \A n \in DOMAIN op.stages :
             \A i \in 1..Len(op.stages[n].nodes) :
                \E j \in 1..Len(op.run.pre) :
                    op.run.pre[j].id = op.stages[n].nodes[i].id

(* ------------------------- BM25 scoring (SpecBM25) ----------------------- *)
\* The notebooks obtain BM25 scores from BM25Retriever; the scoring itself is
\* not part of the repository's sources and is taken from the scorer's
\* description: IDF(t) * tf * (k1 + 1) / (tf + k1 * (1 - b + b * |d| / avgdl))
\* summed over the query terms. Scores are exact fractions.
MaxTf == 3       \* term frequencies 0..MaxTf
MaxIdf == 2      \* IDF values 1..MaxIdf
MaxRatio == 2    \* |d| / avgdl is p / q with p, q in 1..MaxRatio

\* k1 = 1.2 = 6 / 5 and b = 0.75 = 3 / 4
K1Num == 6
K1Den == 5
BNum == 3
BDen == 4

QueryTerms == {"t1", "t2"}

RECURSIVE GCD(_, _)
GCD(a, b) == IF b = 0 THEN a ELSE GCD(b, a % b)

\* the fraction n / d (d > 0) in lowest terms
Rat(n, d) == LET g == GCD(n, d) IN [num |-> n \div g, den |-> d \div g]

RatAdd(x, y) == Rat(x.num * y.den + y.num * x.den, x.den * y.den)

RatGeq(x, y) == x.num * y.den >= y.num * x.den

\* k1 * (1 - b + b * |d| / avgdl), for |d| / avgdl = ratio.p / ratio.q
LengthNorm(ratio) ==
    Rat(K1Num * ((BDen - BNum) * ratio.q + BNum * ratio.p), K1Den * BDen * ratio.q)

\* mutant of TermScore: the term frequency is missing from the numerator
TermScore_notf(idf, tf, ratio) ==
    LET k == LengthNorm(ratio)
    IN  Rat(idf * (K1Num + K1Den) * k.den, K1Den * (tf * k.den + k.num))

\* score_term(t, d)
TermScore(idf, tf, ratio) ==
    LET k == LengthNorm(ratio)
    IN  Rat(idf * tf * (K1Num + K1Den) * k.den, K1Den * (tf * k.den + k.num))

\* score(d): the sum of the term scores over the query terms
BM25_score(idf, tf, ratio) ==
    RatAdd(TermScore(idf["t1"], tf["t1"], ratio),
           TermScore(idf["t2"], tf["t2"], ratio))

\* an index with its IDF values, and two documents of one length with their
\* term frequencies for the query terms
InitBM25 ==
    /\ \E idf \in [QueryTerms -> 1..MaxIdf] :
       \E tf1 \in [QueryTerms -> 0..MaxTf], tf2 \in [QueryTerms -> 0..MaxTf] :
       \E p \in 1..MaxRatio, q \in 1..MaxRatio :
          args = [idf |-> idf, tf1 |-> tf1, tf2 |-> tf2, ratio |-> [p |-> p, q |-> q]]
    /\ result = <<>>
    /\ pc = "score"
    /\ capacity = 0
    /\ cache = EmptyDict
    /\ usage_order = <<>>
    /\ op = NoOp
    /\ clock = 0
    /\ lastAccess = <<>>
    /\ lastPut = <<>>
    /\ since = <<>>
    /\ local = <<>>
    /\ failed = {}

\* both documents are scored for the query
ScoreDocs ==
    /\ pc = "score"
    /\ result' = [d1 |-> BM25_score(args.idf, args.tf1, args.ratio),
                  d2 |-> BM25_score(args.idf, args.tf2, args.ratio)]
    /\ pc' = "done"
    /\ UNCHANGED <<capacity, cache, usage_order, op, clock, lastAccess, lastPut,
                   since, local, failed, args>>

NextBM25 == ScoreDocs

SpecBM25 == InitBM25 /\ [][NextBM25]_vars

(* ------------------------ claims on BM25 (SpecBM25) ---------------------- *)
\* C25: of two documents of identical length that contain the same query
\* terms, the one with the strictly higher term frequency for every query term
\* has a BM25 score greater than or equal to the other's.
C25_MonotoneInTermFrequency ==
    (/\ pc = "done"
     /\ \A t \in QueryTerms : args.tf1[t] > args.tf2[t]
     /\ {t \in QueryTerms : args.tf1[t] > 0} = {t \in QueryTerms : args.tf2[t] > 0})
    => RatGeq(result.d1, result.d2)

\* two documents longer than the average were scored; both contain both query
\* terms, whose IDF values differ, the first document more often
C25_Witness ==
    /\ pc = "done"
    /\ \A t \in QueryTerms : args.tf1[t] > args.tf2[t] /\ args.tf2[t] > 0
    /\ args.idf["t1"] # args.idf["t2"]
    /\ args.ratio.p > args.ratio.q
    /\ result.d1 # result.d2

\* the document ids some stage of the pipeline returned for the query
StageIds ==
    UNION {{op.stages[n].nodes[i].id : i \in 1..Len(op.stages[n].nodes)}
            : n \in DOMAIN op.stages}

\* the built pipeline, had rerank_top_k been f
WithFetchK(f) == [local EXCEPT !.fetch_k = f]

\* C28: with reranking enabled, the pairwise model scores at most
\* min(rerank_top_k, R * top_k) candidates, R being the number of retrievers
\* feeding the base retriever; any two values of rerank_top_k above R * top_k
\* give the same output, and only documents some retriever returned are
\* returned.
C28_RerankCandidateBound ==
    (Retrieved /\ args.use_reranking) =>
        LET limit == Len(StagesOf(local)) * args.top_k
        IN  /\ Len(op.run.pairs) <= Max(0, Min(args.rerank_top_k, limit))
            /\ args.rerank_top_k > limit =>
                  \A f \in FetchKs :
                     f > limit =>
                       Pipeline_retrieve(WithFetchK(f), op.stages, op.predict) = op.run
            /\ {result[i].id : i \in 1..Len(result)} \subseteq StageIds

\* C29: with neither stage enabled, build fails and leaves the pipeline unbuilt,
\* and a retrieve after it raises the "Pipeline not built" error; a built
\* pipeline always has a retriever.
C29_BuildWithoutRetrieverFails ==
    /\ (~args.use_bm25 /\ ~args.use_vector) =>
          /\ local = NoPipeline
          /\ ~since.built
          /\ (pc = "returned" /\ op.name = "build") => op.raised = "StopIteration"
          /\ (pc = "returned" /\ op.name = "retrieve") => op.run.raised = "ValueError"
    /\ local # NoPipeline => StagesOf(local) # <<>>

\* with neither stage enabled build was called, and then retrieve, which raised
C29_Witness ==
    /\ ~args.use_bm25 /\ ~args.use_vector
    /\ since.tried
    /\ pc = "returned"
    /\ op.name = "retrieve"
    /\ op.run.raised = "ValueError"

\* C30: retrieve on a pipeline for which no build has returned raises
\* ValueError without calling a retriever or the reranker; once a build has
\* returned, retrieve runs the built pipeline and never raises that error.
C30_RetrieveNeedsBuild ==
    (pc = "returned" /\ op.name = "retrieve") =>
        IF since.built
        THEN /\ op.run.raised # "ValueError"
             /\ op.run.called # <<>>
             /\ local = Pipeline_build(args, NoPipeline).pipeline
             /\ DOMAIN op.stages = {StagesOf(local)[i] : i \in 1..Len(StagesOf(local))}
        ELSE /\ op.run.raised = "ValueError"
             /\ op.run.called = <<>>
             /\ op.run.pairs = <<>>
             /\ result = <<>>

\* after a build that returned, retrieve ran both stages, fusion and the
\* reranker and returned two documents
C30_Witness ==
    /\ pc = "returned"
    /\ op.name = "retrieve"
    /\ since.built
    /\ op.run.raised = "none"
    /\ op.run.fused
    /\ Len(op.run.pairs) = 2
    /\ Len(result) = 2

====
